---------------------------- MODULE Spec2Model ----------------------------
(***************************************************************************)
(* EatAlyzer: the upload -> analyze -> display session of FoodAnalysisApp  *)
(* (src/unnamed/part_000) and the Analysis Client analyzeFoodImage         *)
(* (src/app/api/analyze.ts).                                               *)
(*                                                                         *)
(* The state is the five React state fields of the component plus the      *)
(* asynchronous work it has started and that has not settled yet: the      *)
(* preview FileReaders and the analyzeFoodImage calls.  Every handler and  *)
(* every completion callback is one atomic action (JavaScript runs each to *)
(* its end, or to its next await, before anything else).                   *)
(***************************************************************************)
EXTENDS Integers, Sequences, FiniteSets

VARIABLES
    selectedFile,    \* useState<File | null>            (part_000:37)
    imagePreview,    \* useState<string | null>          (part_000:38)
    analysisResult,  \* useState<FoodAnalysisResponse | null> (part_000:39)
    isLoading,       \* useState(false)                  (part_000:40)
    error,           \* useState<string | null>          (part_000:41)
    readers,         \* preview FileReaders started at part_000:57-61, not yet settled
    inflight,        \* analyzeFoodImage calls started at part_000:78, not yet settled
    console,         \* what the last failed analysis logged (analyze.ts:81, part_000:82)
    analysedFile     \* history: the argument of the call whose reply is in analysisResult

vars == <<selectedFile, imagePreview, analysisResult, isLoading, error,
          readers, inflight, console, analysedFile>>

-----------------------------------------------------------------------------
(* Bounds of the model *)

\* preview FileReaders that may be pending at once
MaxReaders == 2
\* analyzeFoodImage calls that may be pending at once when the handler is
\* invoked directly (through the View the disabled button allows one)
MaxInFlight == 2

-----------------------------------------------------------------------------
(* Values *)

\* JavaScript null
Null == [kind |-> "null"]

\* !v for the values the state fields hold (null or an object)
Falsy(v) == v.kind = "null"

\* A File: its name and its declared media type, the type as its characters
File(n, t) == [kind |-> "file", name |-> n, type |-> t]

TypeJpeg == <<"i", "m", "a", "g", "e", "/", "j", "p", "e", "g">>
TypePng == <<"i", "m", "a", "g", "e", "/", "p", "n", "g">>
TypeText == <<"t", "e", "x", "t", "/", "p", "l", "a", "i", "n">>
TypeNone == <<>>

MealJpg == File("meal.jpg", TypeJpeg)
SaladPng == File("salad.png", TypePng)
NotesTxt == File("notes.txt", TypeText)
Untyped == File("data.bin", TypeNone)

\* the files the user can pick
Files == {MealJpg, SaladPng, NotesTxt, Untyped}

\* event.target.files: empty when the dialog is cancelled, else the one file
FileLists == {<<>>} \cup {<<f>> : f \in Files}

ImagePrefix == <<"i", "m", "a", "g", "e", "/">>

\* String.prototype.startsWith
startsWith(s, p) == Len(s) >= Len(p) /\ SubSeq(s, 1, Len(p)) = p

\* The messages the controller shows
MsgSelectImage == "Please select an image file"
MsgSelectFirst == "Please select an image first"
MsgAnalyzeFailed == "Failed to analyze image. Please try again."
NoError == "null"

\* The message of the Error analyzeFoodImage throws
ErrAnalyzeFood == "Failed to analyze food image"


\* FileReader.readAsDataURL: "data:<type>;base64,<payload>", kept as its parts;
\* the file's name stands for the base64 of its bytes
DataURL(f) == [kind |-> "dataurl", mime |-> f.type, payload |-> f.name]

\* base64String.split(',')[1]: neither a media type nor base64 holds a comma,
\* so what follows the first comma is the payload
Base64Content(url) == url.payload

-----------------------------------------------------------------------------
(* The replies of the external API *)

\* Two well-formed FoodAnalysisResponse values
MealA ==
    [kind |-> "object", calories |-> 350,
     contents |-> <<"grilled chicken", "rice", "broccoli">>,
     nutritionalInfo |->
        [kind |-> "object",
         fats |-> [total |-> 8, saturated |-> 2, unsaturated |-> 5, trans |-> 1],
         protein |-> 30, carbohydrates |-> 40, sugar |-> 3, fiber |-> 5],
     healthAssessment |->
        [isHealthy |-> TRUE, recommendedConsumption |-> "Suitable as a main meal",
         warnings |-> <<>>, benefits |-> <<"High protein">>]]

MealB ==
    [kind |-> "object", calories |-> 520,
     contents |-> <<"pizza">>,
     nutritionalInfo |->
        [kind |-> "object",
         fats |-> [total |-> 22, saturated |-> 10, unsaturated |-> 9, trans |-> 0],
         protein |-> 18, carbohydrates |-> 60, sugar |-> 7, fiber |-> 2],
     healthAssessment |->
        [isHealthy |-> FALSE, recommendedConsumption |-> "Occasionally",
         warnings |-> <<"High in saturated fat">>, benefits |-> <<>>]]

\* JSON values that are not a FoodAnalysisResponse: {} and
\* {calories: 350, nutritionalInfo: null}
EmptyObject == [kind |-> "object"]
Mistyped == [kind |-> "object", calories |-> 350, nutritionalInfo |-> Null]

WellFormed == {MealA, MealB}

\* FoodAnalysisResponse (analyze.ts:4-25): the fields and their types
IsFoodAnalysisResponse(v) == v \in WellFormed

\* The texts a reply may carry at choices[0].message.content, each named by
\* the value it denotes; "undefined" is what JSON.parse makes of a missing
\* content and "garbage" is any text that is not JSON
TextMealA == "<MealA as JSON>"
TextMealB == "<MealB as JSON>"
TextMistyped == "<Mistyped as JSON>"
Contents == {"garbage", "undefined", "null", "{}", TextMistyped, TextMealA, TextMealB}

\* JSON.parse: the value a text denotes, or a SyntaxError
JSONparse(text) ==
    CASE text = "null" -> [threw |-> FALSE, value |-> Null]
      [] text = "{}" -> [threw |-> FALSE, value |-> EmptyObject]
      [] text = TextMistyped -> [threw |-> FALSE, value |-> Mistyped]
      [] text = TextMealA -> [threw |-> FALSE, value |-> MealA]
      [] text = TextMealB -> [threw |-> FALSE, value |-> MealB]
      [] OTHER -> [threw |-> TRUE, value |-> Null]

\* How a pending call can settle: the FileReader of fileToBase64 fails, axios
\* rejects (network or HTTP failure), or axios resolves with response.data
\* holding a choices array (empty, or one message with a content)
ReadError == [ev |-> "readerror", choices |-> <<>>]
Rejected == [ev |-> "rejected", choices |-> <<>>]
Response(choices) == [ev |-> "response", choices |-> choices]
Responses ==
    {Rejected, Response(<<>>)} \cup {Response(<<c>>) : c \in Contents}

-----------------------------------------------------------------------------
(* The Analysis Client, src/app/api/analyze.ts *)

\* What the try block of analyzeFoodImage throws when the call settles by
\* `settle`, "none" when it runs to its return
Caught(settle) ==
    CASE settle.ev = "readerror" -> "ProgressEvent"
      [] settle.ev = "rejected" -> "AxiosError"
      [] settle.choices = <<>> -> "TypeError"
      [] JSONparse(settle.choices[1]).threw -> "SyntaxError"
      [] OTHER -> "none"

\* analyzeFoodImage with `throw error` for its catch block: what was caught
\* reaches the caller as it is
analyzeFoodImage_Rethrow(settle) ==
    IF Caught(settle) = "none"
    THEN [resolved |-> TRUE, value |-> JSONparse(settle.choices[1]).value,
          caught |-> "none", message |-> "none"]
    ELSE [resolved |-> FALSE, value |-> Null,
          caught |-> Caught(settle), message |-> Caught(settle)]

\* analyzeFoodImage from the point where its await settles: the parsed content
\* returned as it is, or whatever was thrown logged and replaced by one Error
analyzeFoodImage(settle) ==
    IF Caught(settle) = "none"
    THEN [resolved |-> TRUE, value |-> JSONparse(settle.choices[1]).value,
          caught |-> "none", message |-> "none"]
    ELSE [resolved |-> FALSE, value |-> Null,
          caught |-> Caught(settle), message |-> ErrAnalyzeFood]

\* The request axios.post sends: the image is always announced as image/jpeg
Request(file) ==
    [mime |-> TypeJpeg, payload |-> Base64Content(DataURL(file))]

-----------------------------------------------------------------------------
(* The Presentation Controller and the View, src/unnamed/part_000 *)

Silent == [api |-> "none", app |-> "none"]

Init ==
    /\ selectedFile = Null
    /\ imagePreview = Null
    /\ analysisResult = Null
    /\ isLoading = FALSE
    /\ error = NoError
    /\ readers = <<>>
    /\ inflight = <<>>
    /\ console = Silent
    /\ analysedFile = Null

RemoveAt(seq, i) == SubSeq(seq, 1, i - 1) \o SubSeq(seq, i + 1, Len(seq))

\* the type check written !file.type || file.type.startsWith('image/'): a
\* file that declares no type passes
IsImageOrUntyped(file) == file.type = <<>> \/ startsWith(file.type, ImagePrefix)

\* file.type.startsWith('image/')
IsImage(file) == startsWith(file.type, ImagePrefix)

\* handleFileChange without its last statement
KeepAnalysis == UNCHANGED <<analysisResult, analysedFile>>

\* "Reset analysis": setAnalysisResult(null)
ResetAnalysis == analysisResult' = Null /\ analysedFile' = Null

\* handleFileChange with setAnalysisResult(null) moved to its top, beside
\* setError(null): every change event resets the analysis
handleFileChange_ResetsFirst(files) ==
    IF Len(files) > 0
    THEN LET file == files[1] IN
         IF ~IsImage(file)
         THEN /\ error' = MsgSelectImage
              /\ ResetAnalysis
              /\ UNCHANGED <<selectedFile, imagePreview, isLoading,
                             readers, inflight, console>>
         ELSE /\ Len(readers) < MaxReaders
              /\ error' = NoError
              /\ selectedFile' = file
              /\ readers' = Append(readers, file)
              /\ ResetAnalysis
              /\ UNCHANGED <<imagePreview, isLoading, inflight, console>>
    ELSE /\ error' = NoError
         /\ ResetAnalysis
         /\ UNCHANGED <<selectedFile, imagePreview, isLoading,
                        readers, inflight, console>>

\* handleFileChange: the change event of the file input.  (A selection that
\* would start a reader beyond MaxReaders is left out of the model.)
handleFileChange(files) ==
    IF Len(files) > 0
    THEN LET file == files[1] IN
         IF ~IsImage(file)
         THEN /\ error' = MsgSelectImage
              /\ UNCHANGED <<selectedFile, imagePreview, analysisResult, isLoading,
                             readers, inflight, console, analysedFile>>
         ELSE /\ Len(readers) < MaxReaders
              /\ error' = NoError
              /\ selectedFile' = file
              /\ readers' = Append(readers, file)
              /\ ResetAnalysis
              /\ UNCHANGED <<imagePreview, isLoading, inflight, console>>
    ELSE /\ error' = NoError
         /\ UNCHANGED <<selectedFile, imagePreview, analysisResult, isLoading,
                        readers, inflight, console, analysedFile>>

\* reader.onload of the preview reader
PreviewLoaded(i) ==
    /\ i \in 1..Len(readers)
    /\ imagePreview' = DataURL(readers[i])
    /\ readers' = RemoveAt(readers, i)
    /\ UNCHANGED <<selectedFile, analysisResult, isLoading, error, inflight,
                   console, analysedFile>>

\* the preview reader fails: it has no onerror handler
PreviewFailed(i) ==
    /\ i \in 1..Len(readers)
    /\ readers' = RemoveAt(readers, i)
    /\ UNCHANGED <<selectedFile, imagePreview, analysisResult, isLoading, error,
                   inflight, console, analysedFile>>

\* handleAnalyze without the `return` of its guard: the message is set and
\* overwritten, and analyzeFoodImage is called with null
handleAnalyze_FallsThrough ==
    /\ Len(inflight) < MaxInFlight
    /\ isLoading' = TRUE
    /\ error' = NoError
    /\ inflight' = Append(inflight, [file |-> selectedFile, stage |-> "encoding",
                                     request |-> Null])
    /\ UNCHANGED <<selectedFile, imagePreview, analysisResult, readers,
                   console, analysedFile>>

\* handleAnalyze up to its await: the guard, the loading flag, and the call of
\* analyzeFoodImage, which starts reading the file.  (A call beyond MaxInFlight
\* pending ones is left out of the model.)
handleAnalyze ==
    IF Falsy(selectedFile)
    THEN /\ error' = MsgSelectFirst
         /\ UNCHANGED <<selectedFile, imagePreview, analysisResult, isLoading,
                        readers, inflight, console, analysedFile>>
    ELSE /\ Len(inflight) < MaxInFlight
         /\ isLoading' = TRUE
         /\ error' = NoError
         /\ inflight' = Append(inflight, [file |-> selectedFile, stage |-> "encoding",
                                          request |-> Null])
         /\ UNCHANGED <<selectedFile, imagePreview, analysisResult, readers,
                        console, analysedFile>>

\* handleAnalyze with setIsLoading(false) at the end of the try block instead
\* of in a finally block
handleAnalyzeSettled_NoFinally(i, outcome) ==
    /\ inflight' = RemoveAt(inflight, i)
    /\ IF outcome.resolved
       THEN /\ analysisResult' = outcome.value
            /\ analysedFile' = IF Falsy(outcome.value) THEN Null ELSE inflight[i].file
            /\ isLoading' = FALSE
            /\ UNCHANGED <<error, console>>
       ELSE /\ error' = MsgAnalyzeFailed
            /\ console' = [api |-> outcome.caught, app |-> outcome.message]
            /\ UNCHANGED <<analysisResult, analysedFile, isLoading>>
    /\ UNCHANGED <<selectedFile, imagePreview, readers>>

\* handleAnalyze dropping the completion of a call whose file is no longer the
\* selected one
handleAnalyzeSettled_DropStale(i, outcome) ==
    /\ inflight' = RemoveAt(inflight, i)
    /\ isLoading' = FALSE
    /\ IF inflight[i].file # selectedFile
       THEN UNCHANGED <<analysisResult, analysedFile, error, console>>
       ELSE IF outcome.resolved
       THEN /\ analysisResult' = outcome.value
            /\ analysedFile' = IF Falsy(outcome.value) THEN Null ELSE inflight[i].file
            /\ UNCHANGED <<error, console>>
       ELSE /\ error' = MsgAnalyzeFailed
            /\ console' = [api |-> outcome.caught, app |-> outcome.message]
            /\ UNCHANGED <<analysisResult, analysedFile>>
    /\ UNCHANGED <<selectedFile, imagePreview, readers>>

\* handleAnalyze after its await, for the call inflight[i] and what
\* analyzeFoodImage made of it: try / catch / finally
handleAnalyzeSettled(i, outcome) ==
    /\ inflight' = RemoveAt(inflight, i)
    /\ isLoading' = FALSE
    /\ IF outcome.resolved
       THEN /\ analysisResult' = outcome.value
            /\ analysedFile' = IF Falsy(outcome.value) THEN Null ELSE inflight[i].file
            /\ UNCHANGED <<error, console>>
       ELSE /\ error' = MsgAnalyzeFailed
            /\ console' = [api |-> outcome.caught, app |-> outcome.message]
            /\ UNCHANGED <<analysisResult, analysedFile>>
    /\ UNCHANGED <<selectedFile, imagePreview, readers>>

\* analyzeFoodImage encoding the file selected when the read ends instead of
\* its argument
EncodeDone_ReadsSelection(i) ==
    /\ i \in 1..Len(inflight)
    /\ inflight[i].stage = "encoding"
    /\ inflight' = [inflight EXCEPT ![i] =
                       [file |-> @.file, stage |-> "posted",
                        request |-> Request(selectedFile)]]
    /\ UNCHANGED <<selectedFile, imagePreview, analysisResult, isLoading, error,
                   readers, console, analysedFile>>

\* fileToBase64 resolves and axios.post is issued
EncodeDone(i) ==
    /\ i \in 1..Len(inflight)
    /\ inflight[i].stage = "encoding"
    /\ inflight' = [inflight EXCEPT ![i] =
                       [file |-> @.file, stage |-> "posted", request |-> Request(@.file)]]
    /\ UNCHANGED <<selectedFile, imagePreview, analysisResult, isLoading, error,
                   readers, console, analysedFile>>

\* fileToBase64 rejects
EncodeFailed(i) ==
    /\ i \in 1..Len(inflight)
    /\ inflight[i].stage = "encoding"
    /\ handleAnalyzeSettled(i, analyzeFoodImage(ReadError))

\* axios.post settles
Responded(i, settle) ==
    /\ i \in 1..Len(inflight)
    /\ inflight[i].stage = "posted"
    /\ handleAnalyzeSettled(i, analyzeFoodImage(settle))

\* the analyze button with disabled={!selectedFile}
ButtonDisabled_NotWhileLoading == Falsy(selectedFile)

\* the analyze button with disabled={!selectedFile || isLoading || !!error}
ButtonDisabled_WhileError == Falsy(selectedFile) \/ isLoading \/ error # NoError

\* the analyze button: disabled={!selectedFile || isLoading}
ButtonDisabled == Falsy(selectedFile) \/ isLoading

\* a click on the analyze button
ClickAnalyze == ~ButtonDisabled /\ handleAnalyze

SelectFile == \E files \in FileLists : handleFileChange(files)

Completion ==
    \/ \E i \in 1..MaxReaders : PreviewLoaded(i)
    \/ \E i \in 1..MaxReaders : PreviewFailed(i)
    \/ \E i \in 1..MaxInFlight : EncodeDone(i)
    \/ \E i \in 1..MaxInFlight : EncodeFailed(i)
    \/ \E i \in 1..MaxInFlight, settle \in Responses : Responded(i, settle)

\* The session as the user drives it through the View
Next == SelectFile \/ ClickAnalyze \/ Completion

Spec == Init /\ [][Next]_vars

\* The handlers invoked directly, the analyze handler not behind its button
NextDirect == SelectFile \/ handleAnalyze \/ Completion

HandlerSpec == Init /\ [][NextDirect]_vars

\* The session through the View, where every pending file read and network
\* call of an analysis eventually completes
LiveSpec ==
    /\ Spec
    /\ WF_vars(\E i \in 1..MaxInFlight : EncodeDone(i) \/ EncodeFailed(i))
    /\ WF_vars(\E i \in 1..MaxInFlight, settle \in Responses : Responded(i, settle))

-----------------------------------------------------------------------------
(* The Chart Data Transforms *)

\* What a transform yields: the array it returns, or the TypeError of reading
\* a field of undefined or null
Returns(data) == [threw |-> FALSE, data |-> data]
TypeError == [threw |-> TRUE, data |-> <<>>]

\* result.nutritionalInfo can be destructured and read
HasNutritionalInfo(result) ==
    /\ "nutritionalInfo" \in DOMAIN result
    /\ ~Falsy(result.nutritionalInfo)

\* prepareNutritionData with the values of Fiber and Sugar exchanged
prepareNutritionData_Swapped(result) ==
    IF Falsy(result) THEN Returns(<<>>)
    ELSE IF ~HasNutritionalInfo(result) THEN TypeError
    ELSE LET nutritionalInfo == result.nutritionalInfo IN
         Returns(<<
            [name |-> "Carbs", value |-> nutritionalInfo.carbohydrates, fill |-> "#4CAF50"],
            [name |-> "Protein", value |-> nutritionalInfo.protein, fill |-> "#2E7D32"],
            [name |-> "Total Fat", value |-> nutritionalInfo.fats.total, fill |-> "#81C784"],
            [name |-> "Fiber", value |-> nutritionalInfo.sugar, fill |-> "#A5D6A7"],
            [name |-> "Sugar", value |-> nutritionalInfo.fiber, fill |-> "#C8E6C9"]>>)

\* prepareNutritionData, of the analysisResult it closes over
prepareNutritionData(result) ==
    IF Falsy(result) THEN Returns(<<>>)
    ELSE IF ~HasNutritionalInfo(result) THEN TypeError
    ELSE LET nutritionalInfo == result.nutritionalInfo IN
         Returns(<<
            [name |-> "Carbs", value |-> nutritionalInfo.carbohydrates, fill |-> "#4CAF50"],
            [name |-> "Protein", value |-> nutritionalInfo.protein, fill |-> "#2E7D32"],
            [name |-> "Total Fat", value |-> nutritionalInfo.fats.total, fill |-> "#81C784"],
            [name |-> "Fiber", value |-> nutritionalInfo.fiber, fill |-> "#A5D6A7"],
            [name |-> "Sugar", value |-> nutritionalInfo.sugar, fill |-> "#C8E6C9"]>>)

\* prepareFatsData, of the analysisResult it closes over
prepareFatsData(result) ==
    IF Falsy(result) THEN Returns(<<>>)
    ELSE IF ~HasNutritionalInfo(result) THEN TypeError
    ELSE LET fats == result.nutritionalInfo.fats IN
         Returns(<<
            [name |-> "Saturated", value |-> fats.saturated, fill |-> "#FFA726"],
            [name |-> "Unsaturated", value |-> fats.unsaturated, fill |-> "#66BB6A"],
            [name |-> "Trans", value |-> fats.trans, fill |-> "#EF5350"]>>)

\* the series the View gives its two bar charts
nutritionSeries == prepareNutritionData(analysisResult)
fatsSeries == prepareFatsData(analysisResult)

-----------------------------------------------------------------------------
(* The session in the terms of the specification *)

\* UploadSession.pendingState, which the component does not store: Loading
\* while the loading flag is set, Failed while the banner shows the analysis
\* failure message, Succeeded while a result is held, Idle otherwise
PendingOf(loading, err, result) ==
    IF loading THEN "Loading"
    ELSE IF err = MsgAnalyzeFailed THEN "Failed"
    ELSE IF ~Falsy(result) THEN "Succeeded"
    ELSE "Idle"

pendingState == PendingOf(isLoading, error, analysisResult)

\* the files handleFileChange is meant to accept, and to reject
ImageFiles == {MealJpg, SaladPng}
NonImageFiles == {NotesTxt, Untyped}

\* every way a pending call can settle
Settles == {ReadError} \cup Responses

\* the call inflight[i] settles by `settle`
SettledBy(i, settle) ==
    IF settle = ReadError THEN EncodeFailed(i) ELSE Responded(i, settle)

-----------------------------------------------------------------------------
(* Claims *)

\* C1: in every reachable state, analysisResult (result) and error
\* (errorMessage) are never both present.
C1_ResultAndErrorExclusive == ~(~Falsy(analysisResult) /\ error # NoError)

\* C2 as stated: selecting a valid image file, from any state, leaves result
\* absent, errorMessage absent and pendingState = Idle right after the
\* selection.
C2_SelectionResetsToIdle ==
    [][\A f \in ImageFiles :
          handleFileChange(<<f>>) =>
              /\ Falsy(analysisResult')
              /\ error' = NoError
              /\ pendingState' = "Idle"]_vars

\* C2 as amended: selecting a valid image file, from any state, leaves result
\* absent and errorMessage absent right after the selection and does not
\* touch the loading flag: pendingState is Idle afterwards unless an analysis
\* was in flight, in which case it stays Loading.
C2_SelectionClearsResultAndError ==
    [][\A f \in ImageFiles :
          handleFileChange(<<f>>) =>
              /\ Falsy(analysisResult')
              /\ error' = NoError
              /\ isLoading' = isLoading
              /\ pendingState' = IF isLoading THEN "Loading" ELSE "Idle"]_vars

\* C2's case: a file was selected while the analysis of another one is in
\* flight; result and error are absent and the session is still Loading.
C2_Witness ==
    /\ pendingState = "Loading"
    /\ Len(inflight) = 1
    /\ inflight[1].file # selectedFile
    /\ Falsy(analysisResult)
    /\ error = NoError

\* C3: in every reachable state, result is present only when pendingState =
\* Succeeded: absent while Loading and absent when the latest attempt Failed.
C3_ResultOnlyWhenSucceeded ==
    ~Falsy(analysisResult) => pendingState = "Succeeded"


\* C4: every analysis that enters Loading leaves it: when the pending file
\* read and network call eventually complete, the loading flag is eventually
\* cleared, whether the analysis succeeds or fails, and the flag is never set
\* while no analysis is in flight.
C4_LoadingEventuallyCleared ==
    /\ isLoading ~> ~isLoading
    /\ [](isLoading => inflight # <<>>)

\* C4's case: an analysis has failed and the loading flag is cleared.
C4_Witness ==
    /\ ~isLoading
    /\ inflight = <<>>
    /\ console # Silent

\* C5: through the View at most one analysis request is in flight at any time.
C5_AtMostOneInFlight == Len(inflight) <= 1

\* C5's case: a file is selected and the button is disabled by the request in
\* flight.
C5_Witness ==
    /\ Len(inflight) = 1
    /\ ~Falsy(selectedFile)
    /\ ButtonDisabled

\* C6: selecting a file while an analysis is Loading neither removes the
\* pending call nor clears the loading flag, and the completion of a call
\* whose file is no longer the selected one is applied like any other: the
\* result or the failure message is written and the loading flag cleared.
C6_StaleCompletionApplied ==
    [][/\ \A files \in FileLists :
             (isLoading /\ handleFileChange(files)) =>
                 (inflight' = inflight /\ isLoading')
       /\ \A settle \in Settles :
             (/\ inflight # <<>>
              /\ inflight[1].file # selectedFile
              /\ SettledBy(1, settle)) =>
                 /\ ~isLoading'
                 /\ inflight' = <<>>
                 /\ IF Caught(settle) = "none"
                    THEN analysisResult' = JSONparse(settle.choices[1]).value
                    ELSE error' = MsgAnalyzeFailed]_vars

\* C6's case: the stored result was computed for a file other than the
\* selected one.
C6_Witness ==
    /\ ~Falsy(analysisResult)
    /\ ~Falsy(analysedFile)
    /\ analysedFile # selectedFile

FailureCauses ==
    {ReadError, Rejected, Response(<<>>), Response(<<"undefined">>),
     Response(<<"garbage">>)}

\* C8: whatever makes an analysis fail, analyzeFoodImage throws the same
\* Error, and the controller moves Loading -> Failed with the same fallback
\* message, which is neither the thrown Error's text nor what was caught.
C8_OneUndifferentiatedFailure ==
    [][\A settle \in FailureCauses :
          (inflight # <<>> /\ SettledBy(1, settle)) =>
              /\ pendingState = "Loading"
              /\ pendingState' = "Failed"
              /\ error' = MsgAnalyzeFailed
              /\ console'.app = ErrAnalyzeFood
              /\ console'.api # "none"
              /\ error' \notin {console'.app, console'.api}]_vars

\* C8's case: the reply content was not JSON and the session is Failed.
C8_Witness ==
    /\ pendingState = "Failed"
    /\ console = [api |-> "SyntaxError", app |-> ErrAnalyzeFood]

\* C9: a reply whose content is not a FoodAnalysisResponse, valid JSON or
\* not, ends the analysis as Failed with the fallback message and stores no
\* result.
C9_MismatchNeverSucceeds ==
    [][\A c \in Contents :
          (/\ inflight # <<>>
           /\ ~(JSONparse(c).threw = FALSE /\ IsFoodAnalysisResponse(JSONparse(c).value))
           /\ Responded(1, Response(<<c>>))) =>
              /\ pendingState' = "Failed"
              /\ error' = MsgAnalyzeFailed
              /\ analysisResult' = analysisResult]_vars

\* C10: handleAnalyze sets the loading flag only with a file selected; with
\* none it leaves the loading flag and the result as they were, starts no
\* call, and sets the "select an image first" message.
C10_NoFileNoAnalysis ==
    [][handleAnalyze =>
          /\ (isLoading' /\ ~isLoading => ~Falsy(selectedFile))
          /\ (Falsy(selectedFile) =>
                 /\ isLoading' = isLoading
                 /\ inflight' = inflight
                 /\ analysisResult' = analysisResult
                 /\ error' = MsgSelectFirst)]_vars

\* C10's case: the handler ran with no file selected.
C10_Witness ==
    /\ error = MsgSelectFirst
    /\ Falsy(selectedFile)
    /\ inflight = <<>>

\* C11: after two selections in succession of two different image files,
\* with no analysis started, once the reads they started have all loaded, in
\* whichever order, result and errorMessage are absent, pendingState is Idle,
\* and the selection and the preview are both the second file's.  Stated at
\* the step where the last pending read loads, the selected file's read being
\* that one or having loaded before.
C11_SecondFileRetained ==
    [][(/\ Len(readers) = 1
        /\ ~Falsy(selectedFile)
        /\ (readers[1] = selectedFile \/ imagePreview = DataURL(selectedFile))
        /\ pendingState = "Idle"
        /\ error = NoError
        /\ inflight = <<>>
        /\ PreviewLoaded(1)) =>
            /\ Falsy(analysisResult')
            /\ error' = NoError
            /\ pendingState' = "Idle"
            /\ selectedFile' = selectedFile
            /\ imagePreview' = DataURL(selectedFile')]_vars

\* C12: no error ends the session.  Whenever no analysis is in flight, a
\* file selection is accepted, and with a file selected the analyze button is
\* enabled, whether the session is Idle with a rejection message, Failed or
\* Succeeded; a click then enters Loading.
C12_NoErrorIsTerminal ==
    /\ [](inflight = <<>> =>
             /\ ENABLED SelectFile
             /\ (Len(readers) < MaxReaders =>
                    \A f \in ImageFiles : ENABLED handleFileChange(<<f>>))
             /\ (~Falsy(selectedFile) => ~ButtonDisabled /\ ENABLED ClickAnalyze))
    /\ [][ClickAnalyze => pendingState' = "Loading"]_vars

\* C12's case: an analysis has failed, nothing is in flight, and the button
\* is enabled again.
C12_Witness ==
    /\ pendingState = "Failed"
    /\ inflight = <<>>
    /\ ~ButtonDisabled

\* the labels and values of a series, in order
Labels(series) == [k \in 1..Len(series) |-> series[k].name]
Values(series) == [k \in 1..Len(series) |-> series[k].value]

\* C13: for every well-formed analysis held as the result, nutritionSeries is
\* 5 entries labelled Carbs, Protein, Total Fat, Fiber, Sugar with the values
\* of carbohydrates, protein, fats.total, fiber, sugar, and fatsSeries is 3
\* entries labelled Saturated, Unsaturated, Trans with the values of
\* fats.saturated, fats.unsaturated, fats.trans, none of them changed.
C13_SeriesFollowTheResult ==
    IsFoodAnalysisResponse(analysisResult) =>
        LET info == analysisResult.nutritionalInfo IN
        /\ ~nutritionSeries.threw
        /\ ~fatsSeries.threw
        /\ Labels(nutritionSeries.data) =
              <<"Carbs", "Protein", "Total Fat", "Fiber", "Sugar">>
        /\ Values(nutritionSeries.data) =
              <<info.carbohydrates, info.protein, info.fats.total, info.fiber, info.sugar>>
        /\ Labels(fatsSeries.data) = <<"Saturated", "Unsaturated", "Trans">>
        /\ Values(fatsSeries.data) =
              <<info.fats.saturated, info.fats.unsaturated, info.fats.trans>>
        /\ (analysisResult = MealA =>
               /\ Values(nutritionSeries.data) = <<40, 30, 8, 5, 3>>
               /\ Values(fatsSeries.data) = <<2, 5, 1>>)

\* C13's case: the analysis of the specification's scenario A is the result
\* and the charts show its five and three values.
C13_Witness ==
    /\ analysisResult = MealA
    /\ pendingState = "Succeeded"
    /\ Len(nutritionSeries.data) = 5
    /\ Len(fatsSeries.data) = 3

\* C14: in every reachable state in which pendingState is Idle, Loading or
\* Failed, nutritionSeries and fatsSeries are both the empty sequence.
C14_SeriesEmptyUnlessSucceeded ==
    pendingState \in {"Idle", "Loading", "Failed"} =>
        /\ nutritionSeries.data = <<>>
        /\ fatsSeries.data = <<>>

\* C15: the call an analyze click starts carries the file selected at the
\* click; a later file selection leaves the pending call as it is; the request
\* posted encodes that file; and a result stored when the call settles is the
\* reply to that file's request.
C15_RequestCarriesClickedFile ==
    [][/\ ClickAnalyze =>
             /\ Len(inflight') = Len(inflight) + 1
             /\ inflight'[Len(inflight')].file = selectedFile
       /\ \A files \in FileLists :
             handleFileChange(files) => inflight' = inflight
       /\ \A i \in 1..Len(inflight) :
             EncodeDone(i) =>
                 /\ inflight'[i].file = inflight[i].file
                 /\ inflight'[i].request.mime = TypeJpeg
                 /\ inflight'[i].request.payload = inflight[i].file.name
       /\ \A settle \in Responses :
             (/\ inflight # <<>>
              /\ Responded(1, settle)
              /\ ~Falsy(analysisResult')
              /\ Caught(settle) = "none") =>
                 /\ inflight[1].request.payload = inflight[1].file.name
                 /\ analysedFile' = inflight[1].file]_vars

\* C15's case: another file was selected after the click, and the request
\* posted still encodes the file selected at the click.
C15_Witness ==
    /\ Len(inflight) = 1
    /\ inflight[1].stage = "posted"
    /\ inflight[1].file # selectedFile
    /\ inflight[1].request.payload = inflight[1].file.name

\* the change events that select nothing: a cancelled dialog, a rejected file
NoSelection == {<<>>} \cup {<<f>> : f \in NonImageFiles}

\* C16: a rejected selection and a cancelled dialog change only the error
\* field: the selection, the preview, the result, the loading flag and the
\* pending reads and calls are left as they were; and once a file is selected,
\* no step of the session makes selectedFile absent again.
C16_RejectionChangesOnlyError ==
    [][/\ \A files \in NoSelection :
             handleFileChange(files) =>
                 /\ error' = IF files = <<>> THEN NoError ELSE MsgSelectImage
                 /\ UNCHANGED <<selectedFile, imagePreview, analysisResult,
                                isLoading, readers, inflight>>
                 /\ (~Falsy(selectedFile) /\ ~isLoading => ~ButtonDisabled')
       /\ ~Falsy(selectedFile) => ~Falsy(selectedFile')]_vars

\* C16's case: a non-image file was rejected after a successful analysis; the
\* selection and the result are still there.
C16_Witness ==
    /\ error = MsgSelectImage
    /\ ~Falsy(selectedFile)
    /\ ~Falsy(analysisResult)
    /\ ~isLoading

=============================================================================
